---- MODULE Spec2Model ----
(***************************************************************************)
(* One optimisation job of tvm-gcs-dlacc: app/main.py run() driving        *)
(* dlacc.optimum.Optimum and dlacc.ansor_engine.AnsorEngine.               *)
(*                                                                         *)
(* The job is a single sequential process; pc is its position in run().    *)
(* The report (JSONOutput) and the config (JSONConfig) share ONE dict      *)
(* (utils.py:80), modelled by the single variable meta.  Calls into TVM,   *)
(* onnx and the file system may raise; each such call is a                 *)
(* nondeterministic choice between returning and raising.  The cloud       *)
(* collaborators upload_blobs_from_directory and publish_message contain   *)
(* no raise and are taken to return.                                       *)
(***************************************************************************)
EXTENDS Integers, Sequences, FiniteSets, TLC

VARIABLES
    pc,            \* position of the job inside run()
    env,           \* args.env
    config_file,   \* content of config.json as it is on disk
    meta,          \* the dict shared by config and out_json
    exc,           \* exception in flight (or NoExc)
    log_file,      \* AnsorEngine.log_file
    module,        \* AnsorEngine.module exists
    ansor_engine,  \* Optimum.ansor_engine attribute is set
    fs,            \* files present under output_prefix
    trials,        \* entries appended to the tuning record by RecordToFile
    saved,         \* reports written by out_json.save, in order
    uploaded,      \* one entry per upload_blobs_from_directory call
    notifications, \* messages published, in order
    calls,         \* operations invoked so far, in order
    statusHist,    \* values assigned to meta["status"], in order
    raised         \* exceptions raised so far: where, what, caught by whom

vars == <<pc, env, config_file, meta, exc, log_file, module, ansor_engine,
          fs, trials, saved, uploaded, notifications, calls, statusHist,
          raised>>

(***************************************************************************)
(* Bounds                                                                  *)
(***************************************************************************)
MaxTrials == 2

(***************************************************************************)
(* Inputs                                                                  *)
(***************************************************************************)
platformType == {"LOCAL", "GOOGLESTORAGE"}

Modes == {"ansor", "autotvm", "tflite"}

TunedLogs == {"", "history/old_record.json"}

Configs ==
    [tuning_config  : [mode : Modes, num_measure_trials : 0..MaxTrials],
     tuned_log      : TunedLogs,
     need_benchmark : BOOLEAN]

(***************************************************************************)
(* Paths under output_prefix                                               *)
(***************************************************************************)
output_prefix == "outputs"

ReportPath == output_prefix \o "/output_json.json"

LogStem == "tuninglog_network_name=net--target=llvm"

LogExt == ".json"

TuningLogPath == output_prefix \o "/" \o LogStem \o LogExt

\* the marker appended after the extension instead of before it
FinishedNameAfterExt(stem, ext) == output_prefix \o "/" \o stem \o ext \o "_finished"

FinishedName(stem, ext) == output_prefix \o "/" \o stem \o "_finished" \o ext

FinishedLogPath == "outputs/tuninglog_network_name=net--target=llvm_finished.json"

ArtifactPath == output_prefix \o "/optimized_model"

CsvPath == output_prefix \o "/inference_time.csv"

(***************************************************************************)
(* Python values                                                           *)
(***************************************************************************)
NoExc == [type |-> "none", args |-> <<>>]

Exc(t, a) == [type |-> t, args |-> a]

\* str(e): the empty string for an exception raised without arguments
StrExc(e) == IF Len(e.args) = 0 THEN "" ELSE e.args[1]

Digit(d) == <<"0", "1", "2", "3", "4", "5", "6", "7", "8", "9">>[d + 1]

RECURSIVE StrNat(_)
StrNat(n) == IF n < 10 THEN Digit(n) ELSE StrNat(n \div 10) \o Digit(n % 10)

\* str(n) for an int
StrInt(n) == IF n < 0 THEN "-" \o StrNat(-n) ELSE StrNat(n)

\* d[k] = v on a dict
SetItem(d, k, v) == [x \in DOMAIN d \cup {k} |-> IF x = k THEN v ELSE d[x]]

HasKey(d, k) == k \in DOMAIN d

Message(payload, job_status) == [data |-> payload, job_status |-> job_status]

(***************************************************************************)
(* Pieces of run(), Optimum._run and AnsorEngine as operators              *)
(***************************************************************************)
\* the storage mode is never consulted
IsRemoteAlways(e) == TRUE

\* main.py:19 and main.py:50
IsRemote(e) == e = "GOOGLESTORAGE"

\* the report is stamped with 0 instead of 1
BuildReportZero(m) == SetItem(m, "status", 0)

\* main.py:32-33: the report is the config's own dict, stamped with status 1
BuildReport(m) == SetItem(m, "status", 1)

\* the handler sets the status but drops the message
InnerHandlerNoInfo(m, e) == SetItem(m, "status", -1)

\* the handler records the message but forgets the status
InnerHandlerKeepsStatus(m, e) == SetItem(m, "error_info", StrExc(e))

\* main.py:38-41
InnerHandler(m, e) == SetItem(SetItem(m, "error_info", StrExc(e)), "status", -1)

\* promotion without the guard on -1
PromoteAlways(m) == SetItem(m, "status", 4)

\* main.py:43-44
Promote(m) == IF m["status"] # -1 THEN SetItem(m, "status", 4) ELSE m

\* the benchmark runs whatever the config says
BenchmarkAlways(m) == TRUE

\* main.py:47
BenchmarkRequested(m) == m["need_benchmark"]

\* the success notification always announces a finished job
SuccessMessageFinished(m) == Message("OK", "4")

\* main.py:52
SuccessMessage(m) == Message("OK", StrInt(m["status"]))

\* the failure notification built like the success one
FailureMessageOK(e) == Message("OK", "-1")

\* main.py:55
FailureMessage(e) == Message(StrExc(e), "-1")

\* the cache test inverted
CacheHitInverted(lf) == lf = ""

\* optimum.py:129
CacheHit(lf) == lf # ""

\* ansor_engine.py:142-143
CompileLogFile(cur, arg) == IF arg # "" THEN arg ELSE cur

\* ansor_engine.py:124
MarkTuned(m) == SetItem(m, "status", 2)

\* compile stamps the code of a freshly created report
MarkCompiledAsCreated(m) == SetItem(m, "status", 1)

\* ansor_engine.py:157
MarkCompiled(m) == SetItem(m, "status", 3)

\* the report is written only for a job that did not fail
PersistOnSuccess(s, m) == IF m["status"] = -1 THEN s ELSE Append(s, m)

\* utils.py:82-84: json.dump of the whole dict
Persist(s, m) == Append(s, m)

\* utils.py:79-80: JSONOutput.meta IS json_config.meta, so config[k] reads
\* the dict the report writes to
ConfigGetItem(m, k) == m[k]

\* the keys visible through the config object
ConfigKeys(m) == DOMAIN m

Call(op, arg) == [op |-> op, arg |-> arg]

\* the status value of the dict after an assignment, appended to the history
Stamp(h, m) == Append(h, m["status"])

(***************************************************************************)
(* Initial state: the process has parsed its arguments; nothing is loaded. *)
(***************************************************************************)
Init ==
    /\ pc = "start"
    /\ env \in platformType
    /\ config_file \in Configs
    /\ meta = <<>>
    /\ exc = NoExc
    /\ log_file = ""
    /\ module = FALSE
    /\ ansor_engine = FALSE
    /\ fs = {}
    /\ trials = 0
    /\ saved = <<>>
    /\ uploaded = <<>>
    /\ notifications = <<>>
    /\ calls = <<>>
    /\ statusHist = <<>>
    /\ raised = <<>>

\* an exception raised at the current position, caught by the handler at h
Raise(e, h) ==
    /\ exc' = e
    /\ raised' = Append(raised, [at |-> pc, exc |-> e, handler |-> h])
    /\ pc' = h

\* the current statement returns normally
Return(next) ==
    /\ pc' = next
    /\ UNCHANGED <<exc, raised>>

(***************************************************************************)
(* run(): acquisition stages, main.py:19-30                                *)
(***************************************************************************)
\* main.py:19-20
FetchConfig ==
    /\ pc = "start"
    /\ IsRemote(env)
    /\ \/ Return("fetch_model")
       \/ Raise(Exc("NotFound", <<"404 config.json">>), "outer_except")
    /\ UNCHANGED <<env, config_file, meta, log_file, module, ansor_engine, fs,
                   trials, saved, uploaded, notifications, calls, statusHist>>

\* main.py:21
FetchModel ==
    /\ pc = "fetch_model"
    /\ \/ Return("load")
       \/ Raise(Exc("NotFound", <<"404 model.onnx">>), "outer_except")
    /\ UNCHANGED <<env, config_file, meta, log_file, module, ansor_engine, fs,
                   trials, saved, uploaded, notifications, calls, statusHist>>

\* main.py:19 when the inputs are local
SkipFetch ==
    /\ pc = "start"
    /\ ~IsRemote(env)
    /\ Return("load")
    /\ UNCHANGED <<env, config_file, meta, log_file, module, ansor_engine,
                   fs, trials, saved, uploaded, notifications, calls, statusHist>>

\* main.py:23, utils.py:66-72: open or json.load may raise; main.py passes two
\* arguments where utils.py:67 declares one, which raises as well
LoadConfig ==
    /\ pc = "load"
    /\ \/ /\ meta' = config_file
          /\ Return("convert")
       \/ /\ Raise(Exc("JSONDecodeError", <<"Expecting value">>), "outer_except")
          /\ UNCHANGED meta
    /\ UNCHANGED <<env, config_file, log_file, module, ansor_engine, fs,
                   trials, saved, uploaded, notifications, calls, statusHist>>

\* main.py:24-30
Convert ==
    /\ pc = "convert"
    /\ \/ Return("build_report")
       \/ Raise(Exc("UnsupportedFormatError", <<"unsupported model type">>),
                "outer_except")
    /\ UNCHANGED <<env, config_file, meta, log_file, module, ansor_engine, fs,
                   trials, saved, uploaded, notifications, calls, statusHist>>

\* main.py:32-33
NewReport ==
    /\ pc = "build_report"
    /\ meta' = BuildReport(meta)
    /\ statusHist' = Stamp(statusHist, meta')
    /\ Return("optimum_run")
    /\ UNCHANGED <<env, config_file, log_file, module, ansor_engine, fs,
                   trials, saved, uploaded, notifications, calls>>

(***************************************************************************)
(* Optimum.run / Optimum._run, optimum.py:81-142, inside the inner try     *)
(***************************************************************************)
\* the engine is stored on the Optimum object as soon as it is constructed
CreateEngineEager ==
    /\ pc = "optimum_run"
    /\ meta["tuning_config"].mode = "ansor"
    /\ \/ /\ ansor_engine' = TRUE
          /\ Return("dispatch")
       \/ /\ Raise(Exc("OpNotImplemented", <<"operator not supported">>),
                   "inner_except")
          /\ UNCHANGED ansor_engine
    /\ UNCHANGED <<env, config_file, meta, log_file, module, fs,
                   trials, saved, uploaded, notifications, calls, statusHist>>

\* main.py:36-37, optimum.py:120-128 and ansor_engine.py:47-60:
\* mode "ansor" builds the engine (relay.frontend.from_onnx may raise)
CreateEngine ==
    /\ pc = "optimum_run"
    /\ meta["tuning_config"].mode = "ansor"
    /\ \/ Return("dispatch")
       \/ Raise(Exc("OpNotImplemented", <<"operator not supported">>),
                "inner_except")
    /\ UNCHANGED <<env, config_file, meta, log_file, module, ansor_engine, fs,
                   trials, saved, uploaded, notifications, calls, statusHist>>

\* optimum.py:139-140: raise NotImplementedError, the class, without arguments
RunAutotvm ==
    /\ pc = "optimum_run"
    /\ meta["tuning_config"].mode = "autotvm"
    /\ Raise(Exc("NotImplementedError", <<>>), "inner_except")
    /\ UNCHANGED <<env, config_file, meta, log_file, module, ansor_engine, fs,
                   trials, saved, uploaded, notifications, calls, statusHist>>

\* an unknown mode is skipped silently and Optimum.run returns
RunOtherModeIgnored ==
    /\ pc = "optimum_run"
    /\ meta["tuning_config"].mode \notin {"ansor", "autotvm"}
    /\ Return("promote")
    /\ UNCHANGED <<env, config_file, meta, log_file, module, ansor_engine, fs,
                   trials, saved, uploaded, notifications, calls, statusHist>>

\* optimum.py:141 with neither branch taken: ae was never bound
RunOtherMode ==
    /\ pc = "optimum_run"
    /\ meta["tuning_config"].mode \notin {"ansor", "autotvm"}
    /\ Raise(Exc("UnboundLocalError",
                 <<"local variable 'ae' referenced before assignment">>),
             "inner_except")
    /\ UNCHANGED <<env, config_file, meta, log_file, module, ansor_engine, fs,
                   trials, saved, uploaded, notifications, calls, statusHist>>

\* optimum.py:129-134: a non-empty tuned_log goes straight to ansor_compile
DispatchCompile ==
    /\ pc = "dispatch"
    /\ CacheHit(meta["tuned_log"])
    /\ calls' = Append(calls, Call("ansor_compile", meta["tuned_log"]))
    /\ log_file' = CompileLogFile(log_file, meta["tuned_log"])
    /\ Return("compile")
    /\ UNCHANGED <<env, config_file, meta, module, ansor_engine, fs, trials,
                   saved, uploaded, notifications, statusHist>>

\* optimum.py:135-138 and ansor_engine.py:77-99: ansor_run_tuning starts
DispatchTuning ==
    /\ pc = "dispatch"
    /\ ~CacheHit(meta["tuned_log"])
    /\ calls' = Append(calls, Call("ansor_run_tuning", ""))
    /\ log_file' = TuningLogPath
    /\ Return("tune")
    /\ UNCHANGED <<env, config_file, meta, module, ansor_engine, fs, trials,
                   saved, uploaded, notifications, statusHist>>

(***************************************************************************)
(* AnsorEngine.ansor_run_tuning, ansor_engine.py:62-126                    *)
(***************************************************************************)
\* ansor_engine.py:97,115: one measured trial, appended by RecordToFile
TuneTrial ==
    /\ pc = "tune"
    /\ trials < meta["tuning_config"].num_measure_trials
    /\ trials' = trials + 1
    /\ fs' = fs \cup {log_file}
    /\ Return("tune")
    /\ UNCHANGED <<env, config_file, meta, log_file, module, ansor_engine,
                   saved, uploaded, notifications, calls, statusHist>>

\* ansor_engine.py:85-115: extract_tasks or tuner.tune raises
TuneFail ==
    /\ pc = "tune"
    /\ Raise(Exc("TVMError", <<"search failed">>), "inner_except")
    /\ UNCHANGED <<env, config_file, meta, log_file, module, ansor_engine, fs,
                   trials, saved, uploaded, notifications, calls, statusHist>>

\* ansor_engine.py:115: tuner.tune returns (budget spent or early stopping)
TuneDone ==
    /\ pc = "tune"
    /\ Return("rename")
    /\ UNCHANGED <<env, config_file, meta, log_file, module, ansor_engine, fs,
                   trials, saved, uploaded, notifications, calls, statusHist>>

\* the file is renamed but self.log_file keeps the old path
RenameRecordStalePath ==
    /\ pc = "rename"
    /\ IF log_file \in fs
       THEN /\ fs' = (fs \ {log_file}) \cup {FinishedName(LogStem, LogExt)}
            /\ Return("set_tuned")
       ELSE /\ Raise(Exc("FileNotFoundError", <<"No such file or directory">>),
                     "inner_except")
            /\ UNCHANGED fs
    /\ UNCHANGED <<env, config_file, meta, log_file, module, ansor_engine,
                   trials, saved, uploaded, notifications, calls, statusHist>>

\* ansor_engine.py:117-123: Path.rename raises when no record was written
RenameRecord ==
    /\ pc = "rename"
    /\ IF log_file \in fs
       THEN /\ fs' = (fs \ {log_file}) \cup {FinishedName(LogStem, LogExt)}
            /\ log_file' = FinishedName(LogStem, LogExt)
            /\ Return("set_tuned")
       ELSE /\ Raise(Exc("FileNotFoundError", <<"No such file or directory">>),
                     "inner_except")
            /\ UNCHANGED <<fs, log_file>>
    /\ UNCHANGED <<env, config_file, meta, module, ansor_engine, trials,
                   saved, uploaded, notifications, calls, statusHist>>

\* ansor_engine.py:124-125: status 2, then the chained call of ansor_compile
SetTuned ==
    /\ pc = "set_tuned"
    /\ meta' = MarkTuned(meta)
    /\ statusHist' = Stamp(statusHist, meta')
    /\ calls' = Append(calls, Call("ansor_compile", log_file))
    /\ log_file' = CompileLogFile(log_file, log_file)
    /\ Return("compile")
    /\ UNCHANGED <<env, config_file, module, ansor_engine, fs, trials, saved,
                   uploaded, notifications>>

(***************************************************************************)
(* AnsorEngine.ansor_compile, ansor_engine.py:128-158                      *)
(***************************************************************************)
\* status 3 is stamped although the module was not created
CompileWithoutModule ==
    /\ pc = "compile"
    /\ \/ /\ fs' = fs \cup {ArtifactPath}
          /\ meta' = MarkCompiled(meta)
          /\ statusHist' = Stamp(statusHist, meta')
          /\ Return("optimum_return")
       \/ /\ Raise(Exc("TVMError", <<"build failed">>), "inner_except")
          /\ UNCHANGED <<fs, meta, statusHist>>
    /\ UNCHANGED <<env, config_file, log_file, module, ansor_engine, trials,
                   saved, uploaded, notifications, calls>>

\* ansor_engine.py:145-158: build, save the artifact, create the module
Compile ==
    /\ pc = "compile"
    /\ \/ /\ fs' = fs \cup {ArtifactPath}
          /\ module' = TRUE
          /\ meta' = MarkCompiled(meta)
          /\ statusHist' = Stamp(statusHist, meta')
          /\ Return("optimum_return")
       \/ /\ Raise(Exc("TVMError", <<"build failed">>), "inner_except")
          /\ UNCHANGED <<fs, module, meta, statusHist>>
    /\ UNCHANGED <<env, config_file, log_file, ansor_engine, trials, saved,
                   uploaded, notifications, calls>>

\* optimum.py:141-142: the engine is published on the Optimum object
OptimumReturn ==
    /\ pc = "optimum_return"
    /\ ansor_engine' = TRUE
    /\ Return("promote")
    /\ UNCHANGED <<env, config_file, meta, log_file, module, fs, trials, saved,
                   uploaded, notifications, calls, statusHist>>

(***************************************************************************)
(* run(): inner boundary and delivery, main.py:38-55                       *)
(***************************************************************************)
\* main.py:38-41
InnerExcept ==
    /\ pc = "inner_except"
    /\ meta' = InnerHandler(meta, exc)
    /\ statusHist' = Stamp(statusHist, meta')
    /\ exc' = NoExc
    /\ pc' = "promote"
    /\ UNCHANGED <<env, config_file, log_file, module, ansor_engine, fs, trials,
                   saved, uploaded, notifications, calls, raised>>

\* main.py:43-44
PromoteStatus ==
    /\ pc = "promote"
    /\ meta' = Promote(meta)
    /\ statusHist' = IF meta' # meta THEN Stamp(statusHist, meta') ELSE statusHist
    /\ Return("save")
    /\ UNCHANGED <<env, config_file, log_file, module, ansor_engine, fs, trials,
                   saved, uploaded, notifications, calls>>

\* main.py:45, utils.py:82-84
Save ==
    /\ pc = "save"
    /\ saved' = Persist(saved, meta)
    /\ fs' = fs \cup {ReportPath}
    /\ calls' = Append(calls, Call("save", ReportPath))
    /\ Return("benchmark")
    /\ UNCHANGED <<env, config_file, meta, log_file, module, ansor_engine,
                   trials, uploaded, notifications, statusHist>>

\* main.py:47 with need_benchmark false
SkipBenchmark ==
    /\ pc = "benchmark"
    /\ ~BenchmarkRequested(meta)
    /\ Return("deliver")
    /\ UNCHANGED <<env, config_file, meta, log_file, module, ansor_engine, fs,
                   trials, saved, uploaded, notifications, calls, statusHist>>

\* main.py:48 when Optimum.run raised: optimum.ansor_engine was never set
BenchmarkNoEngine ==
    /\ pc = "benchmark"
    /\ BenchmarkRequested(meta)
    /\ ~ansor_engine
    /\ Raise(Exc("AttributeError",
                 <<"'Optimum' object has no attribute 'ansor_engine'">>),
             "outer_except")
    /\ UNCHANGED <<env, config_file, meta, log_file, module, ansor_engine, fs,
                   trials, saved, uploaded, notifications, calls, statusHist>>

\* main.py:48, ansor_engine.py:167-194
Evaluate ==
    /\ pc = "benchmark"
    /\ BenchmarkRequested(meta)
    /\ ansor_engine
    /\ calls' = Append(calls, Call("evaluate", ""))
    /\ \/ /\ fs' = fs \cup {CsvPath}
          /\ Return("deliver")
       \/ /\ Raise(Exc("RuntimeError", <<"benchmark failed">>), "outer_except")
          /\ UNCHANGED fs
    /\ UNCHANGED <<env, config_file, meta, log_file, module, ansor_engine,
                   trials, saved, uploaded, notifications, statusHist>>

\* main.py:50 in local mode: nothing is uploaded or published
FinishLocal ==
    /\ pc = "deliver"
    /\ ~IsRemote(env)
    /\ Return("done")
    /\ UNCHANGED <<env, config_file, meta, log_file, module, ansor_engine, fs,
                   trials, saved, uploaded, notifications, calls, statusHist>>

\* the notification is sent although the directory was not uploaded
UploadSkipped ==
    /\ pc = "deliver"
    /\ IsRemote(env)
    /\ Return("publish")
    /\ UNCHANGED <<env, config_file, meta, log_file, module, ansor_engine, fs,
                   trials, saved, uploaded, notifications, calls, statusHist>>

\* main.py:50-51, helpers.py:67-81
Upload ==
    /\ pc = "deliver"
    /\ IsRemote(env)
    /\ uploaded' = Append(uploaded, fs)
    /\ calls' = Append(calls, Call("upload_blobs_from_directory", output_prefix))
    /\ Return("publish")
    /\ UNCHANGED <<env, config_file, meta, log_file, module, ansor_engine, fs,
                   trials, saved, notifications, statusHist>>

\* main.py:52, helpers.py:92-99
PublishSuccess ==
    /\ pc = "publish"
    /\ notifications' = Append(notifications, SuccessMessage(meta))
    /\ calls' = Append(calls, Call("publish_message", "OK"))
    /\ Return("done")
    /\ UNCHANGED <<env, config_file, meta, log_file, module, ansor_engine, fs,
                   trials, saved, uploaded, statusHist>>

\* main.py:54-55, helpers.py:92-99
OuterExcept ==
    /\ pc = "outer_except"
    /\ notifications' = Append(notifications, FailureMessage(exc))
    /\ calls' = Append(calls, Call("publish_message", StrExc(exc)))
    /\ exc' = NoExc
    /\ pc' = "done"
    /\ UNCHANGED <<env, config_file, meta, log_file, module, ansor_engine, fs,
                   trials, saved, uploaded, statusHist, raised>>

Next ==
    \/ FetchConfig
    \/ FetchModel
    \/ SkipFetch
    \/ LoadConfig
    \/ Convert
    \/ NewReport
    \/ CreateEngine
    \/ RunAutotvm
    \/ RunOtherMode
    \/ DispatchCompile
    \/ DispatchTuning
    \/ TuneTrial
    \/ TuneFail
    \/ TuneDone
    \/ RenameRecord
    \/ SetTuned
    \/ Compile
    \/ OptimumReturn
    \/ InnerExcept
    \/ PromoteStatus
    \/ Save
    \/ SkipBenchmark
    \/ BenchmarkNoEngine
    \/ Evaluate
    \/ FinishLocal
    \/ Upload
    \/ PublishSuccess
    \/ OuterExcept

Spec == Init /\ [][Next]_vars

\* the job's steps are taken until run() returns
FairSpec == Spec /\ WF_vars(Next)

TypeOK ==
    /\ env \in platformType
    /\ config_file \in Configs
    /\ module \in BOOLEAN
    /\ ansor_engine \in BOOLEAN
    /\ trials \in 0..MaxTrials
    /\ Len(saved) <= 1
    /\ Len(notifications) <= 1

(***************************************************************************)
(* Vocabulary of the properties                                            *)
(***************************************************************************)
Range(f) == {f[i] : i \in DOMAIN f}

Ops == {calls[i].op : i \in DOMAIN calls}

Done == pc = "done"

\* the report object exists (main.py:32 was executed)
ReportBuilt == Len(statusHist) > 0

\* Optimum.run raised into the inner boundary
OptimizerRaised == \E i \in DOMAIN raised : raised[i].handler = "inner_except"

\* Optimum.run returned normally
OptimizerReturned == ansor_engine

\* an exception reached the outer boundary
OuterRaised == \E i \in DOMAIN raised : raised[i].handler = "outer_except"

\* the stages that run before the report is constructed
AcquisitionStages == {"start", "fetch_model", "load", "convert"}

AcquisitionFailed ==
    \E i \in DOMAIN raised : raised[i].at \in AcquisitionStages

FreshJob == config_file.tuned_log = ""

(***************************************************************************)
(* C1. For a job with tuned_log == "" that reaches out_json.save, the      *)
(* persisted status is 3 or 4 when Optimum.run succeeded and -1 when it    *)
(* raised; it is never 0 or 2.                                             *)
(***************************************************************************)
C1_PersistedStatus ==
    (FreshJob /\ Len(saved) > 0) =>
        LET st == saved[Len(saved)]["status"] IN
        /\ OptimizerReturned => st \in {3, 4}
        /\ OptimizerRaised => st = -1
        /\ st \notin {0, 2}

\* a fresh search was tuned (status 2), its compile failed, the report is saved
C1_Witness ==
    /\ FreshJob
    /\ Len(saved) > 0
    /\ 2 \in Range(statusHist)
    /\ OptimizerRaised
    /\ saved[1]["status"] = -1

(***************************************************************************)
(* C2. For a job whose tuned_log is non-empty, ansor_run_tuning is never   *)
(* invoked (no search, no rename, status never 2) and, when compile        *)
(* succeeds, the report status takes exactly the values 0, 3, 4.           *)
(***************************************************************************)
C2_NoSearch ==
    ~FreshJob =>
        /\ "ansor_run_tuning" \notin Ops
        /\ trials = 0
        /\ FinishedLogPath \notin fs
        /\ 2 \notin Range(statusHist)

TuningReturned == "ansor_run_tuning" \in Ops /\ module

\* tuner.tune and Path.rename (ansor_engine.py:115-121) both completed
SearchCompleted ==
    /\ "ansor_run_tuning" \in Ops
    /\ pc \notin {"tune", "rename"}
    /\ \A i \in DOMAIN raised : raised[i].at \notin {"tune", "rename"}

SearchFailed == \E i \in DOMAIN raised : raised[i].at = "tune"

\* the claim as stated
C3_Original == Done => (FinishedLogPath \in fs <=> TuningReturned)

\* C3 amended: the rename follows the search, not the whole of
\* ansor_run_tuning: the record is renamed exactly when tuner.tune and the
\* rename completed; a failure of the chained compile leaves it renamed
C3_RenameIffSearchCompleted ==
    /\ FinishedLogPath \in fs <=> SearchCompleted
    /\ FinishedLogPath \in fs => TuningLogPath \notin fs
    /\ TuningReturned => FinishedLogPath \in fs
    /\ SearchFailed => FinishedLogPath \notin fs

\* the search completed, the record is renamed, and the chained compile raised
C3_Witness ==
    /\ Done
    /\ FinishedLogPath \in fs
    /\ ~TuningReturned
    /\ \E i \in DOMAIN raised : raised[i].at = "compile"

(***************************************************************************)
(* C4. Failure is sticky: once the status is -1 no later step changes it.  *)
(***************************************************************************)
Failed(m) == HasKey(m, "status") /\ m["status"] = -1

C4_StickyFailure == [][Failed(meta) => Failed(meta')]_vars

\* a failed report went through promotion, save, upload and notify
C4_Witness ==
    /\ Done
    /\ Failed(meta)
    /\ Len(uploaded) = 1
    /\ Len(notifications) = 1

(***************************************************************************)
(* C5. A job that reaches the inner boundary persists its report exactly   *)
(* once, whether Optimum.run returns or raises.                            *)
(***************************************************************************)
C5_SavedOnce ==
    /\ Len(saved) <= 1
    /\ ~ReportBuilt => Len(saved) = 0
    /\ (ReportBuilt /\ pc \in {"benchmark", "deliver", "publish", "done"}) =>
           Len(saved) = 1
    /\ (ReportBuilt /\ pc = "outer_except") => Len(saved) = 1

\* the optimizer raised and the job still finished with one saved report
C5_Witness ==
    /\ Done
    /\ OptimizerRaised
    /\ Len(saved) = 1
    /\ HasKey(saved[1], "error_info")

(***************************************************************************)
(* C6. With mode = "autotvm" Optimum.run fails, the status becomes -1 and  *)
(* the saved report carries a non-empty error_info.                        *)
(***************************************************************************)
AutotvmJob == config_file.tuning_config.mode = "autotvm"

C6_AutotvmReport ==
    (AutotvmJob /\ Len(saved) > 0) =>
        /\ OptimizerRaised
        /\ saved[1]["status"] = -1
        /\ HasKey(saved[1], "error_info")
        /\ saved[1]["error_info"] # ""

(***************************************************************************)
(* C7. If a stage before the report is constructed fails (fetch of         *)
(* config.json or model.onnx, config load, conversion), no report is       *)
(* saved, nothing is uploaded, and exactly one notification is published,  *)
(* with job_status "-1" and the exception's message as payload.            *)
(***************************************************************************)
C7_AcquisitionFailure ==
    AcquisitionFailed =>
        /\ saved = <<>>
        /\ uploaded = <<>>
        /\ ReportPath \notin fs
        /\ Len(raised) = 1
        /\ Len(notifications) <= 1
        /\ Done =>
              /\ Len(notifications) = 1
              /\ notifications[1].job_status = "-1"
              /\ notifications[1].data = raised[1].exc.args[1]

\* the fetch of model.onnx failed and the job has returned
C7_Witness ==
    /\ Done
    /\ Len(raised) = 1
    /\ raised[1].at = "fetch_model"
    /\ notifications = <<Message("404 model.onnx", "-1")>>

(***************************************************************************)
(* C8. Every job ends with exactly one terminal notification, in every     *)
(* storage mode and on every path.                                         *)
(***************************************************************************)
\* the claim as stated
C8_Original == Done => Len(notifications) = 1

\* C8 amended: at most one notification is ever published, and a finished
\* job has published exactly one unless it ran in local mode and no
\* exception reached the outer boundary, in which case it published none
C8_OneNotification ==
    /\ Len(notifications) <= 1
    /\ Done => (Len(notifications) = 0 <=> (env = "LOCAL" /\ ~OuterRaised))

\* a local job that completed every stage and published nothing
C8_Witness ==
    /\ Done
    /\ env = "LOCAL"
    /\ Len(saved) = 1
    /\ notifications = <<>>

(***************************************************************************)
(* C9. Whenever the outer boundary handles an exception, no report has     *)
(* been persisted or uploaded in that job.                                 *)
(***************************************************************************)
C9_OuterMeansNoReport ==
    OuterRaised =>
        /\ saved = <<>>
        /\ uploaded = <<>>

(***************************************************************************)
(* C10. evaluate() is invoked only when benchmarking was requested and     *)
(* the optimizer succeeded; it is never called while the status is -1.     *)
(***************************************************************************)
C10_EvaluateOnlyOnSuccess ==
    "evaluate" \in Ops =>
        /\ config_file.need_benchmark
        /\ OptimizerReturned
        /\ ~OptimizerRaised
        /\ ~Failed(meta)
        /\ module

\* benchmarking was requested, Optimum.run raised, and the job went past the
\* benchmark stage without evaluate() having been called
C10_Witness ==
    /\ Done
    /\ config_file.need_benchmark
    /\ Failed(meta)
    /\ "evaluate" \notin Ops

(***************************************************************************)
(* C11. When need_benchmark is false, evaluate() is never invoked and no   *)
(* benchmark CSV is produced, also when compile succeeds.                  *)
(***************************************************************************)
C11_NoBenchmarkNoCsv ==
    ~config_file.need_benchmark =>
        /\ "evaluate" \notin Ops
        /\ CsvPath \notin fs
        /\ \A i \in DOMAIN uploaded : CsvPath \notin uploaded[i]

\* compile succeeded, the job finished, benchmarking was not requested
C11_Witness ==
    /\ Done
    /\ ~config_file.need_benchmark
    /\ module
    /\ ArtifactPath \in fs
    /\ Len(saved) = 1

(***************************************************************************)
(* C12. In remote-storage mode, for every job in which Optimum.run raises  *)
(* (for any need_benchmark), the report is saved with status -1 and        *)
(* error_info, the output directory is then uploaded and a notification    *)
(* carrying the report's status is published.                              *)
(***************************************************************************)
C12_FailedJobDelivered ==
    (Done /\ env = "GOOGLESTORAGE" /\ OptimizerRaised) =>
        /\ Len(saved) = 1
        /\ saved[1]["status"] = -1
        /\ HasKey(saved[1], "error_info")
        /\ Len(uploaded) = 1
        /\ ReportPath \in uploaded[1]
        /\ Len(notifications) = 1
        /\ notifications[1].job_status = "-1"

(***************************************************************************)
(* C13. When no stage fails the status never decreases: the fresh-search   *)
(* path takes 0, 2, 3, 4 and the cache-hit path 0, 3, 4; the only          *)
(* transition to a lower value anywhere is the one to -1.                  *)
(***************************************************************************)
NoStageFailed == raised = <<>>

NonDecreasingUntilFailure ==
    \A i \in 1..(Len(statusHist) - 1) :
        \/ statusHist[i] <= statusHist[i + 1]
        \/ statusHist[i + 1] = -1

AtOptimumRun == pc = "optimum_run"

EnginePositions ==
    {"dispatch", "tune", "rename", "set_tuned", "compile", "optimum_return"}

C15_UnsupportedMode ==
    config_file.tuning_config.mode # "ansor" =>
        /\ pc \notin EnginePositions
        /\ Ops \cap {"ansor_run_tuning", "ansor_compile", "evaluate"} = {}
        /\ ~module
        /\ ~ansor_engine
        /\ Range(statusHist) \cap {2, 3, 4} = {}
        /\ Len(saved) > 0 => (OptimizerRaised /\ saved[1]["status"] = -1)
        /\ (Done /\ ReportBuilt) => meta["status"] = -1

\* an unknown mode: the job finished with a failed report
C15_Witness ==
    /\ Done
    /\ config_file.tuning_config.mode = "tflite"
    /\ Len(saved) = 1
    /\ saved[1]["status"] = -1

(***************************************************************************)
(* C16. In the persisted report error_info is present if and only if the   *)
(* status is -1: a report saved with 4 has none, a report saved with -1    *)
(* has the message of the exception raised by Optimum.run.                 *)
(***************************************************************************)
\* the text of the exception Optimum.run raised
InnerMessage ==
    LET i == CHOOSE j \in DOMAIN raised : raised[j].handler = "inner_except"
        a == raised[i].exc.args
    IN IF a = <<>> THEN "" ELSE a[1]

C16_ErrorInfoIffFailed ==
    Len(saved) > 0 =>
        /\ saved[1]["status"] \in {4, -1}
        /\ HasKey(saved[1], "error_info") <=> saved[1]["status"] = -1
        /\ saved[1]["status"] = -1 <=> OptimizerRaised
        /\ saved[1]["status"] = -1 => saved[1]["error_info"] = InnerMessage

\* the search failed and its message is in the saved report
C16_Witness ==
    /\ Len(saved) = 1
    /\ saved[1]["status"] = -1
    /\ saved[1]["error_info"] = "search failed"

(***************************************************************************)
(* C17. In remote-storage mode the success-path notification has payload   *)
(* "OK" and a job_status that is the string form of the status written to  *)
(* the persisted report; no step between save and publish changes the      *)
(* status.                                                                 *)
(***************************************************************************)
AfterSave == pc \in {"benchmark", "deliver", "publish", "done", "outer_except"}

C17_PublishedStatus ==
    /\ (ReportBuilt /\ AfterSave) =>
           (Len(saved) = 1 /\ meta["status"] = saved[1]["status"])
    /\ "upload_blobs_from_directory" \in Ops =>
           \/ pc = "publish" /\ notifications = <<>>
           \/ /\ Done
              /\ Len(saved) = 1
              /\ Len(notifications) = 1
              /\ notifications[1].data = "OK"
              /\ notifications[1].job_status =
                     (IF saved[1]["status"] = 4 THEN "4" ELSE "-1")
    /\ \A i \in DOMAIN notifications :
           notifications[i].data = "OK" => env = "GOOGLESTORAGE"

\* a failed report was delivered on the success path
C17_Witness ==
    /\ Done
    /\ Len(saved) = 1
    /\ saved[1]["status"] = -1
    /\ notifications = <<Message("OK", "-1")>>

(***************************************************************************)
(* C18. On the fresh-search path the order is: search completes, record    *)
(* renamed, status 2, compile invoked with the renamed path.  Whenever the *)
(* status is 2 the record is already renamed, and compile after a fresh    *)
(* search never reads the un-renamed path.                                 *)
(***************************************************************************)
C18_RenameBeforeTuned ==
    /\ (HasKey(meta, "status") /\ meta["status"] = 2) =>
           /\ FinishedLogPath \in fs
           /\ TuningLogPath \notin fs
           /\ log_file = FinishedLogPath
           /\ pc \in {"compile", "inner_except"}
    /\ FreshJob =>
           /\ \A i \in DOMAIN calls :
                  calls[i].op = "ansor_compile" =>
                      /\ calls[i].arg = FinishedLogPath
                      /\ i > 1
                      /\ calls[i - 1].op = "ansor_run_tuning"
           /\ pc = "compile" => log_file = FinishedLogPath

\* the record is renamed, the status is 2 and compile is about to read it
C18_Witness ==
    /\ pc = "compile"
    /\ FreshJob
    /\ meta["status"] = 2
    /\ trials > 0
    /\ log_file = FinishedLogPath

(***************************************************************************)
(* C19. The JobConfig is immutable after load: no stage changes or adds a  *)
(* field of the config object; writes to the report are not visible        *)
(* through the config.                                                     *)
(***************************************************************************)
ConfigLoaded == pc \notin {"start", "fetch_model", "load"} /\ meta # <<>>

C19_ConfigImmutable ==
    ConfigLoaded =>
        /\ ConfigKeys(meta) = DOMAIN config_file
        /\ \A k \in DOMAIN config_file : ConfigGetItem(meta, k) = config_file[k]

(***************************************************************************)
(* C20. A report has status 4 only if compile completed in that job: the   *)
(* status was 3 immediately before promotion and the engine holds a        *)
(* compiled module.                                                        *)
(***************************************************************************)
C20_FinishedMeansCompiled ==
    (HasKey(meta, "status") /\ meta["status"] = 4) =>
        /\ module
        /\ ansor_engine
        /\ ArtifactPath \in fs
        /\ "ansor_compile" \in Ops
        /\ Len(statusHist) >= 2
        /\ statusHist[Len(statusHist)] = 4
        /\ statusHist[Len(statusHist) - 1] = 3
        /\ ~OptimizerRaised

\* a report saved with status 4
C20_Witness ==
    /\ Len(saved) = 1
    /\ saved[1]["status"] = 4
    /\ module

(***************************************************************************)
(* C21. In remote-storage mode the external effects are ordered: the       *)
(* upload happens only after the report was persisted and, when            *)
(* benchmarking is requested, after evaluate() returned; the success       *)
(* notification is published only after the upload returned; "OK" is never *)
(* published for a job whose output was not uploaded.                      *)
(***************************************************************************)
\* some call of op precedes position i of the call history
CalledBefore(op, i) == \E j \in 1..(i - 1) : calls[j].op = op

C21_DeliveryOrder ==
    /\ \A i \in DOMAIN calls :
           calls[i].op = "upload_blobs_from_directory" =>
               /\ env = "GOOGLESTORAGE"
               /\ CalledBefore("save", i)
               /\ config_file.need_benchmark => CalledBefore("evaluate", i)
    /\ \A i \in DOMAIN calls :
           calls[i] = Call("publish_message", "OK") =>
               CalledBefore("upload_blobs_from_directory", i)
    /\ \A u \in DOMAIN uploaded :
           /\ ReportPath \in uploaded[u]
           /\ config_file.need_benchmark => CsvPath \in uploaded[u]
    /\ \A n \in DOMAIN notifications :
           notifications[n].data = "OK" =>
               (Len(uploaded) = 1 /\ Len(saved) = 1)
    /\ Len(uploaded) <= 1

\* a benchmarked job was saved, evaluated, uploaded and announced, in order
C21_Witness ==
    /\ Done
    /\ config_file.need_benchmark
    /\ Len(uploaded) = 1
    /\ CsvPath \in uploaded[1]
    /\ Len(notifications) = 1
    /\ notifications[1].data = "OK"

====
